---- MODULE Spec2Model ----
(***************************************************************************)
(* A model of GQCP's SpinUnresolvedONVBasis                                *)
(* (gqcp/src/ONVBasis/SpinUnresolvedONVBasis.cpp): the vertex-weight       *)
(* addressing scheme, the address <-> bit-pattern conversions, the         *)
(* next-permutation bit trick, forEach, the dimension computation, the     *)
(* dense operator evaluation entry points and the one-electron couplings.  *)
(*                                                                         *)
(* Machine integers keep their width:                                      *)
(*   - a size_t / unsigned long that is used as a BIT PATTERN is the set   *)
(*     of its set bit positions, a subset of 0..WordBits-1;                *)
(*   - a size_t that is used as a NUMBER (vertex weight, address) is a     *)
(*     little-endian sequence of four limbs of LimbBits bits, added        *)
(*     and subtracted modulo 2^WordBits;                                   *)
(*   - orbital and electron indices are plain integers; where the code's   *)
(*     unsigned index arithmetic can wrap, the wrap is modelled explicitly.*)
(***************************************************************************)
EXTENDS Integers, Sequences, FiniteSets, TLC

(***************************************************************************)
(* Bounds of the model (inputs the actions draw from).                     *)
(***************************************************************************)
\* Largest orbital count of the exhaustively explored bases (M, N), N <= M.
MaxM == 5
\* Constructor inputs with too many electrons: N in M+1 .. M+MaxExcess.
MaxExcess == 2
\* A basis whose exact dimension C(OverflowM, OverflowN) exceeds 2^64.
OverflowM == 68
OverflowN == 34

(***************************************************************************)
(* Program constants.                                                      *)
(***************************************************************************)
\* Width of size_t / unsigned long (LP64).
\* The largest maximum_number_of_iterations of the SCF runs.
MaxIterations == 4

\* The largest minimum_/maximum_subspace_dimension of the DIIS runs.
MaxSubspace == 2

\* The largest number of steps of a grid in one direction.
MaxSteps == 2

\* The largest step size of a grid, in halves.
MaxStepSize == 2

\* The most replace_current_* calls made on one environment.
MaxReplacements == 1

WordBits == 64
\* Width of int, the type of the literal (1) that representationOf shifts.
IntBits == 32

VARIABLES
    phase,           \* "start": no basis yet; "ready": basis constructed; "crashed"
    M,               \* the basis's number of orbitals
    N,               \* the basis's number of electrons
    vertex_weights,  \* the basis's table, rows 0..M (1-based: row p is [p + 1])
    onv,             \* the caller's SpinUnresolvedONV, if it holds one
    fe,              \* the forEach call in progress or last made
    ev,              \* the evaluateOperatorDense call in progress or last made
    last,            \* the last completed call: its name, arguments and outcome
    algorithm,       \* the IterativeAlgorithm of an SCF run: steps, position, state
    environment,     \* the SCF environment: the histories of the iterates
    diis,            \* the DIIS solver's subspace: its two deques and last update
    grid             \* a CubicGrid and the evaluate call made on it

onvvars == <<phase, M, N, vertex_weights, onv, fe, ev, last>>

scfvars == <<algorithm, environment, diis>>

vars == <<phase, M, N, vertex_weights, onv, fe, ev, last, algorithm, environment, diis, grid>>

(***************************************************************************)
(* size_t as a number: four limbs of LimbBits bits, least significant      *)
(* first.  Exact (non-wrapping) arithmetic uses one more limb.             *)
(***************************************************************************)
LimbBits == WordBits \div 4
Base == 2^LimbBits

\* The number n (0 <= n < 2^31) as a size_t.
Sz(n) == <<n % Base, n \div Base, 0, 0>>

\* a + b in size_t: modulo 2^WordBits, the carry out of the top limb is lost.
SzAdd(a, b) ==
    LET s1 == a[1] + b[1]
        s2 == a[2] + b[2] + s1 \div Base
        s3 == a[3] + b[3] + s2 \div Base
        s4 == a[4] + b[4] + s3 \div Base
    IN  <<s1 % Base, s2 % Base, s3 % Base, s4 % Base>>

\* -a in size_t (two's complement).
SzNeg(a) ==
    SzAdd(<<(Base - 1) - a[1], (Base - 1) - a[2], (Base - 1) - a[3], (Base - 1) - a[4]>>,
          Sz(1))

\* a - b in size_t: modulo 2^WordBits.
SzSub(a, b) == SzAdd(a, SzNeg(b))

\* a * n in size_t, for 0 <= n < 2^15: modulo 2^WordBits.
SzMulSmall(a, n) ==
    LET s1 == a[1] * n
        s2 == a[2] * n + s1 \div Base
        s3 == a[3] * n + s2 \div Base
        s4 == a[4] * n + s3 \div Base
    IN  <<s1 % Base, s2 % Base, s3 % Base, s4 % Base>>

\* a / 2 in size_t.
SzHalf(a) ==
    <<a[1] \div 2 + (a[2] % 2) * (Base \div 2),
      a[2] \div 2 + (a[3] % 2) * (Base \div 2),
      a[3] \div 2 + (a[4] % 2) * (Base \div 2),
      a[4] \div 2>>

SzLess(a, b) ==
    \/ a[4] < b[4]
    \/ a[4] = b[4] /\ a[3] < b[3]
    \/ a[4] = b[4] /\ a[3] = b[3] /\ a[2] < b[2]
    \/ a[4] = b[4] /\ a[3] = b[3] /\ a[2] = b[2] /\ a[1] < b[1]

SzLeq(a, b) == ~ SzLess(b, a)

\* Exact natural numbers below 2^(WordBits + LimbBits): one limb more.
Exact(n) == <<n % Base, n \div Base, 0, 0, 0>>

ExactAdd(a, b) ==
    LET s1 == a[1] + b[1]
        s2 == a[2] + b[2] + s1 \div Base
        s3 == a[3] + b[3] + s2 \div Base
        s4 == a[4] + b[4] + s3 \div Base
        s5 == a[5] + b[5] + s4 \div Base
    IN  <<s1 % Base, s2 % Base, s3 % Base, s4 % Base, s5 % Base>>

\* An exact number fits size_t when its top limb is 0.
FitsSizeT(a) == a[5] = 0

ToSizeT(a) == <<a[1], a[2], a[3], a[4]>>

\* A size_t small enough to be read back as a model integer.
IsSmall(a) == a[3] = 0 /\ a[4] = 0 /\ a[2] < 2^14

Val(a) == a[1] + Base * a[2]

(***************************************************************************)
(* size_t / unsigned long as a bit pattern: the set of set bit positions.  *)
(***************************************************************************)
Word == 0..(WordBits - 1)

Min(S) == CHOOSE x \in S : \A y \in S : x <= y

BitOr(a, b) == a \cup b

BitAnd(a, b) == a \cap b

BitXor(a, b) == (a \ b) \cup (b \ a)

BitNot(a) == Word \ a

\* a + 1UL modulo 2^WordBits.
Inc(a) ==
    IF a = Word THEN {}
    ELSE LET z == Min(Word \ a) IN {i \in a : i > z} \cup {z}

\* a - 1UL modulo 2^WordBits.
Dec(a) ==
    IF a = {} THEN Word
    ELSE LET l == Min(a) IN (a \ {l}) \cup {i \in Word : i < l}

\* a >> k for 0 <= k < WordBits.
ShiftRight(a, k) == {i - k : i \in {j \in a : j >= k}}

\* __builtin_ctzl(a) for a # 0.
ctzl(a) == Min(a)

\* Unsigned comparison of two bit patterns as integers.
BitLess(a, b) ==
    /\ a # b
    /\ LET d == BitXor(a, b)
           top == CHOOSE x \in d : \A y \in d : y <= x
       IN  top \in b

(***************************************************************************)
(* SpinUnresolvedONVBasis::SpinUnresolvedONVBasis(M, N): the vertex-weight *)
(* table.  vertex_weights[p][m] of the code is Table(p, m) of the model:   *)
(* the table is the sequence of its rows p = 0..M, a row the sequence of   *)
(* its entries m = 0..N.                                                   *)
(***************************************************************************)
\* The code fills the table column by column (m outer, p inner).  An entry
\* (p, m) reads only row p - 1, so the model computes row p from row p - 1,
\* which gives every entry the value the code's loops give it.

\* One row of std::vector<std::vector<size_t>>(M + 1, std::vector<size_t>(N + 1, 0))
ZeroRow(nElec) == [m \in 1..(nElec + 1) |-> Sz(0)]

\* Row p with the recurrence applied on every row p >= m.
TableRowUnbounded(above, p, nOrb, nElec) ==
    [j \in 1..(nElec + 1) |->
        LET m == j - 1
        IN  IF m = 0 THEN (IF p < nOrb - nElec + 1 THEN Sz(1) ELSE Sz(0))
            ELSE IF m <= p
                 THEN SzAdd(above[m + 1], above[(m - 1) + 1])
                 ELSE Sz(0)] \o <<>>

\* Row p of the table, given row p - 1 (`above`; for p = 0 a zero row):
\*   entry 0:  for (p = 0; p < M - N + 1; p++) vertex_weights[p][0] = 1;
\*   entry m >= 1:  for (p = m; p < (M - N + m) + 1; p++)
\*       vertex_weights[p][m] = vertex_weights[p-1][m] + vertex_weights[p-1][m-1];
\*   every other entry keeps the 0 of the zero matrix.
TableRow(above, p, nOrb, nElec) ==
    [j \in 1..(nElec + 1) |->
        LET m == j - 1
        IN  IF m = 0 THEN (IF p < nOrb - nElec + 1 THEN Sz(1) ELSE Sz(0))
            ELSE IF m <= p /\ p < (nOrb - nElec + m) + 1
                 THEN SzAdd(above[m + 1], above[(m - 1) + 1])
                 ELSE Sz(0)] \o <<>>

\* The n rows p .. p+n-1, given row p - 1.
RECURSIVE TableRows(_, _, _, _, _)
TableRows(above, p, n, nOrb, nElec) ==
    IF n = 0 THEN <<>>
    ELSE IF n = 1 THEN <<TableRow(above, p, nOrb, nElec)>>
    ELSE LET half == n \div 2
             upper == TableRows(above, p, half, nOrb, nElec)
         IN  upper \o TableRows(upper[half], p + half, n - half, nOrb, nElec)

\* The constructor has no check of N against M.  M - N + 1 is computed in
\* size_t: for N = M + 1 it is 0 and both loops are empty; for N > M + 1 it
\* wraps to 2^64 - (N - M - 1), and the first loop writes vertex_weights[p][0]
\* for every p up to that bound, far outside the M + 1 rows (undefined
\* behaviour: the write runs off the heap).
Constructor(nOrb, nElec) ==
    IF nOrb - nElec + 1 < 0
    THEN [undefined |-> TRUE, vertex_weights |-> <<>>]
    ELSE [undefined |-> FALSE,
          vertex_weights |-> TableRows(ZeroRow(nElec), 0, nOrb + 1, nOrb, nElec)]

numberOfOrbitals == M

numberOfElectrons == N

\* vertexWeight(p, m): the table lookup; 0 outside the table's shape.
vertexWeight(p, m) ==
    IF p \in 0..M /\ m \in 0..N THEN vertex_weights[p + 1][m + 1] ELSE Sz(0)

\* SpinUnresolvedONVBasis::arcWeight
arcWeight(p, n) == vertexWeight(p, n + 1)

(***************************************************************************)
(* SpinUnresolvedONVBasis::calculateDimension                              *)
(***************************************************************************)
\* Row n + 1 of Pascal's triangle from row n, in exact arithmetic.
NextPascalRow(row) ==
    [j \in 1..(Len(row) + 1) |->
        IF j = 1 \/ j = Len(row) + 1 THEN Exact(1)
        ELSE ExactAdd(row[j - 1], row[j])] \o <<>>

\* The n rows that follow `row`.
RECURSIVE PascalRows(_, _)
PascalRows(row, n) ==
    IF n = 0 THEN <<>>
    ELSE IF n = 1 THEN <<NextPascalRow(row)>>
    ELSE LET half == n \div 2
             upper == PascalRows(row, half)
         IN  upper \o PascalRows(upper[half], n - half)

\* Row n (n >= 1) of Pascal's triangle: the binomial coefficients C(n, 0..n).
PascalRow(n) == PascalRows(<<Exact(1)>>, n)[n]

\* boost::math::binomial_coefficient<double>(n, k) for k <= n: 1 for k = 0 or
\* k = n, n for k = 1 or k = n - 1, else n! / (n-k)! / k! in doubles, rounded
\* to the nearest integer.  The three factorials and the two divisions are
\* each rounded to 53 bits, so the result is the exact binomial coefficient
\* when that is below 2^49 and is above 2^64 when that is above 2^65.  The
\* bases of this model have C(M, N) < 2^49 or C(M, N) > 2^65; in between the
\* double may differ from the exact value, which this model does not compute.
binomial_coefficient(n, k) ==
    IF k = 0 \/ k = n THEN Exact(1)
    ELSE IF k = 1 \/ k = n - 1 THEN Exact(n)
    ELSE PascalRow(n)[k + 1]

\* The result is [thrown, value].  binomial_coefficient raises
\* std::domain_error for k > n, which the catch clause does not catch;
\* converter<size_t, double>::convert throws bad_numeric_cast when the double
\* is out of the range of size_t, rethrown as std::overflow_error.
calculateDimension(nOrb, nElec) ==
    IF nElec > nOrb THEN [thrown |-> "domain_error", value |-> Sz(0)]
    ELSE LET dim_double == binomial_coefficient(nOrb, nElec)
         IN  IF ~ FitsSizeT(dim_double)
             THEN [thrown |-> "overflow_error", value |-> Sz(0)]
             ELSE [thrown |-> "none", value |-> ToSizeT(dim_double)]

\* dimension(): the dimension of this basis.
dimension == calculateDimension(numberOfOrbitals, numberOfElectrons)

(***************************************************************************)
(* Address calculations and ONV manipulations.                             *)
(***************************************************************************)
\* SpinUnresolvedONV: the occupied orbitals of a representation, ascending.
occupationIndices(representation) ==
    SelectSeq([i \in 1..WordBits |-> i - 1], LAMBDA p : p \in representation)

\* SpinUnresolvedONV::occupationIndexOf(e): the orbital of electron e, i.e.
\* the e-th set bit (from 0) of the representation.
occupationIndexOf(representation, e) == occupationIndices(representation)[e + 1]

\* The while loop of addressOf visits the set bits from the least significant
\* one (p = __builtin_ctzl(copy), then copy ^= copy & -copy), counting them in
\* electron_count, and adds vertexWeight(p, electron_count) to the address.
\* The sum of the terms for the electron counts lo..hi, modulo 2^WordBits:
RECURSIVE addressOfLoop(_, _, _)
addressOfLoop(representation, lo, hi) ==
    IF lo > hi THEN Sz(0)
    ELSE IF lo = hi THEN vertexWeight(occupationIndexOf(representation, lo - 1), lo)
    ELSE LET mid == (lo + hi) \div 2
         IN  SzAdd(addressOfLoop(representation, lo, mid),
                   addressOfLoop(representation, mid + 1, hi))

\* SpinUnresolvedONVBasis::addressOf
addressOf(representation) == addressOfLoop(representation, 1, Cardinality(representation))

\* The bit trick with the shift one position short.
nextPermutationOfShortShift(representation) ==
    LET t == BitOr(representation, Dec(representation))
    IN  BitOr(Inc(t),
              ShiftRight(Dec(BitAnd(BitNot(t), Inc(t))), ctzl(representation)))

\* SpinUnresolvedONVBasis::nextPermutationOf, for representation # 0
\* (__builtin_ctzl(0) is undefined).
nextPermutationOf(representation) ==
    LET t == BitOr(representation, Dec(representation))
    IN  BitOr(Inc(t),
              ShiftRight(Dec(BitAnd(BitNot(t), Inc(t))), ctzl(representation) + 1))

\* The value of the int expression (1) << k, converted to size_t by
\* `representation |= ...`, as the set of possible results.
\*   k < IntBits - 1: the single bit k.
\*   k = IntBits - 1: INT_MIN, sign-extended to bits IntBits-1 .. WordBits-1.
\*   k >= IntBits: undefined (shift count not below the width of int); the
\*     hardware shift masks the count to k % IntBits, or the result is 0.
IntOneShiftedLeftDefined(k) ==
    IF k < IntBits - 1 THEN {k} ELSE (IntBits - 1)..(WordBits - 1)

IntOneShiftedLeft(k) ==
    IF k < IntBits THEN {IntOneShiftedLeftDefined(k)}
    ELSE {IntOneShiftedLeftDefined(k % IntBits), {}}

\* The for loop of representationOf, from orbital p downwards: the set of
\* representations it can end with.
RECURSIVE representationOfLoop(_, _, _, _)
representationOfLoop(p, m, address, representation) ==
    IF ~ (p > 0) THEN {representation}
    ELSE LET weight == vertexWeight(p - 1, m)
         IN  IF SzLeq(weight, address)
             THEN UNION { IF m - 1 = 0 THEN {r}
                          ELSE representationOfLoop(p - 1, m - 1, SzSub(address, weight), r)
                          : r \in {BitOr(representation, bit) : bit \in IntOneShiftedLeft(p - 1)} }
             ELSE representationOfLoop(p - 1, m, address, representation)

\* SpinUnresolvedONVBasis::representationOf: the set of its possible results
\* (one result whenever every shift is defined).
representationOf(address) ==
    IF numberOfElectrons # 0
    THEN representationOfLoop(numberOfOrbitals, numberOfElectrons, address, {})
    ELSE {{}}

(***************************************************************************)
(* SpinUnresolvedONVBasis::calculateOneElectronCouplings                   *)
(***************************************************************************)
\* The ONVs a loop over the addresses visits: it starts from
\* constructONVFromAddress(0) and calls transformONVToNextPermutation after
\* every address but the last.  The n ONVs that follow `before`:
RECURSIVE NextPermutations(_, _)
NextPermutations(before, n) ==
    IF n = 0 THEN <<>>
    ELSE IF n = 1 THEN <<nextPermutationOf(before)>>
    ELSE LET half == n \div 2
             lower == NextPermutations(before, half)
         IN  lower \o NextPermutations(lower[half], n - half)

\* The index of the sparse matrix of the excitation (p, q), p <= q.
couplingIndex(p, q) ==
    LET K == numberOfOrbitals IN (p * (K + K + 1 - p)) \div 2 + q - p

\* size_t e2 = e1 + 1; size_t q = p + 1; int sign_e2 = 1;
InitialCreationE1(address, p, e1) ==
    [address |-> address, q |-> p + 1, e |-> e1, sign |-> 1]

InitialCreation(address, p, e1) ==
    [address |-> address, q |-> p + 1, e |-> e1 + 1, sign |-> 1]

\* shiftUntilNextUnoccupiedOrbital<T>(onv, address, q, e, sign): while orbital
\* q is the one of electron e, pass over it: the address exchanges the weight
\* of that electron counted as number e + 1 for its weight counted as number
\* e + 1 - T, and the sign flips.
RECURSIVE shiftUntilNextUnoccupiedOrbital(_, _, _)
shiftUntilNextUnoccupiedOrbital(T, occupation_indices, s) ==
    IF s.e < numberOfElectrons /\ s.q = occupation_indices[s.e + 1]
    THEN LET shifted == SzAdd(s.address, SzSub(vertexWeight(s.q, s.e + 1 - T),
                                               vertexWeight(s.q, s.e + 1)))
         IN  shiftUntilNextUnoccupiedOrbital(T, occupation_indices,
                 [address |-> shifted, q |-> s.q + 1, e |-> s.e + 1, sign |-> 0 - s.sign])
    ELSE s

\* The while loop recording (I, J) only.
RECURSIVE creationLoopOneSided(_, _, _, _, _)
creationLoopOneSided(representation, occupation_indices, I, p, s) ==
    IF s.q < numberOfOrbitals
    THEN LET J == SzAdd(s.address, vertexWeight(s.q, s.e))
             next == shiftUntilNextUnoccupiedOrbital(1, occupation_indices,
                         [s EXCEPT !.q = s.q + 1])
         IN  << [index |-> couplingIndex(p, s.q), row |-> Sz(I), col |-> J,
                 value |-> s.sign, p |-> p, q |-> s.q, onv |-> representation] >>
             \o creationLoopOneSided(representation, occupation_indices, I, p, next)
    ELSE <<>>

\* The while (q < K) loop: the two triplets of every creation orbital q.
\* A triplet is [index, row, col, value]; p, q and the ONV of the loop are
\* recorded beside it.
RECURSIVE creationLoop(_, _, _, _, _)
creationLoop(representation, occupation_indices, I, p, s) ==
    IF s.q < numberOfOrbitals
    THEN LET J == SzAdd(s.address, vertexWeight(s.q, s.e))
             next == shiftUntilNextUnoccupiedOrbital(1, occupation_indices,
                         [s EXCEPT !.q = s.q + 1])
         IN  << [index |-> couplingIndex(p, s.q), row |-> Sz(I), col |-> J,
                 value |-> s.sign, p |-> p, q |-> s.q, onv |-> representation],
                [index |-> couplingIndex(p, s.q), row |-> J, col |-> Sz(I),
                 value |-> s.sign, p |-> p, q |-> s.q, onv |-> representation] >>
             \o creationLoop(representation, occupation_indices, I, p, next)
    ELSE <<>>

\* The body of the e1 loop: the diagonal triplet, then the creation loop.
annihilation(representation, occupation_indices, I, e1) ==
    LET p == occupation_indices[e1 + 1]
        address == SzSub(Sz(I), vertexWeight(p, e1 + 1))
        start == shiftUntilNextUnoccupiedOrbital(1, occupation_indices,
                     InitialCreation(address, p, e1))
    IN  << [index |-> couplingIndex(p, p), row |-> Sz(I), col |-> Sz(I),
            value |-> 1, p |-> p, q |-> p, onv |-> representation] >>
        \o creationLoop(representation, occupation_indices, I, p, start)

\* The concatenation of the sequences lists[lo], ..., lists[hi].
RECURSIVE Concatenation(_, _, _)
Concatenation(lists, lo, hi) ==
    IF lo > hi THEN <<>>
    ELSE IF lo = hi THEN lists[lo]
    ELSE LET mid == (lo + hi) \div 2
         IN  Concatenation(lists, lo, mid) \o Concatenation(lists, mid + 1, hi)

\* The e1 loop for the ONV of address I.
annihilations(representation, I) ==
    LET occupation_indices == occupationIndices(representation)
    IN  Concatenation([e \in 1..numberOfElectrons |->
                          annihilation(representation, occupation_indices, I, e - 1)],
                      1, numberOfElectrons)

\* The triplets of the sparse_entries, in the order of their emplace_back;
\* `first` is the ONV that constructONVFromAddress(0) returned.
calculateOneElectronCouplings(first, dim) ==
    IF numberOfElectrons = 0 THEN <<>>
    ELSE LET onvs == <<first>> \o NextPermutations(first, dim - 1)
         IN  Concatenation([i \in 1..dim |-> annihilations(onvs[i], i - 1)], 1, dim)

(***************************************************************************)
(* SpinUnresolvedONVBasis::countTotalOneElectronCouplings                  *)
(***************************************************************************)
\* return (M - N) * N * (this->dimension());  as [thrown, value].  For
\* N <= M the factor (M - N) * N is below 2^15 for the bases of this model;
\* for N > M dimension() throws.
countTotalOneElectronCouplings ==
    IF dimension.thrown # "none" THEN [thrown |-> dimension.thrown, value |-> Sz(0)]
    ELSE [thrown |-> "none",
          value |-> SzMulSmall(dimension.value,
                               (numberOfOrbitals - numberOfElectrons) * numberOfElectrons)]

(***************************************************************************)
(* SpinUnresolvedONVBasis::countOneElectronCouplings,                      *)
(* countTwoElectronCouplings and countTotalTwoElectronCouplings.  The two  *)
(* counts of an ONV are modelled for the configurations of the basis,      *)
(* where every intermediate value is a small non-negative number.          *)
(***************************************************************************)
\* The sum of f[lo], ..., f[hi].
RECURSIVE Sum(_, _, _)
Sum(f, lo, hi) ==
    IF lo > hi THEN 0
    ELSE IF lo = hi THEN f[lo]
    ELSE LET mid == (lo + hi) \div 2 IN Sum(f, lo, mid) + Sum(f, mid + 1, hi)

\* for e1: coupling_count += (V + e1 - p);
countOneElectronCouplings(representation) ==
    LET V == numberOfOrbitals - numberOfElectrons
        occupation_indices == occupationIndices(representation)
    IN  Sum([e \in 1..numberOfElectrons |-> V + (e - 1) - occupation_indices[e]],
            1, numberOfElectrons)

\* The e2 loop without the pairs of virtual orbitals above q.
electronPairCouplingsMixedOnly(V, e2, q) ==
    LET coupling_count2 == V + e2 - q
    IN  (V - coupling_count2) * coupling_count2

\* The body of the e2 loop: (V - coupling_count2) * coupling_count2, and
\* calculateDimension(coupling_count2, 2) when coupling_count2 > 1.
electronPairCouplings(V, e2, q) ==
    LET coupling_count2 == V + e2 - q
    IN  (V - coupling_count2) * coupling_count2
        + (IF coupling_count2 > 1 THEN Val(calculateDimension(coupling_count2, 2).value)
           ELSE 0)

\* for e1: the one-electron part, then for e2 > e1 the body above.
countTwoElectronCouplings(representation) ==
    LET V == numberOfOrbitals - numberOfElectrons
        occupation_indices == occupationIndices(representation)
    IN  Sum([e \in 1..numberOfElectrons |->
                (V + (e - 1) - occupation_indices[e])
                + Sum([f \in 1..numberOfElectrons |->
                          IF f > e
                          THEN electronPairCouplings(V, f - 1, occupation_indices[f])
                          ELSE 0],
                      e + 1, numberOfElectrons)],
            1, numberOfElectrons)

\* if (M - N >= 2) two_electron_permutation =
\*     calculateDimension(M - N, 2) * N * (N - 1) * dimension() / 2;
\* return two_electron_permutation + countTotalOneElectronCouplings();
\* as [thrown, value].  For N > M dimension() throws; for N <= M the factor
\* calculateDimension(M - N, 2) * N * (N - 1) is below 2^15 for the
\* enumerable bases of this model.
countTotalTwoElectronCouplings ==
    IF dimension.thrown # "none" THEN [thrown |-> dimension.thrown, value |-> Sz(0)]
    ELSE LET V == numberOfOrbitals - numberOfElectrons
             two_electron_permutation ==
                 IF V >= 2
                 THEN SzHalf(SzMulSmall(dimension.value,
                          Val(calculateDimension(V, 2).value)
                          * numberOfElectrons * (numberOfElectrons - 1)))
                 ELSE Sz(0)
         IN  [thrown |-> "none",
              value |-> SzAdd(two_electron_permutation,
                              countTotalOneElectronCouplings.value)]

(***************************************************************************)
(* SpinUnresolvedONVBasis::evaluateOperatorDense                           *)
(***************************************************************************)
\* The operators it is overloaded for.
OperatorKinds ==
    {"ScalarGSQOneElectronOperator", "ScalarGSQTwoElectronOperator", "GSQHamiltonian"}

IncompatibleIfLarger(operatorOrbitals) == operatorOrbitals > numberOfOrbitals

\* if (f.numberOfOrbitals() != this->numberOfOrbitals())
Incompatible(operatorOrbitals) == operatorOrbitals # numberOfOrbitals

\* CubicGrid::CubicGrid(origin, steps, step_sizes), and the state of the
\* evaluate call on it: the capacity reserved, the values pushed back, and
\* the loop indices of forEach.
CubicGrid(steps, step_sizes) ==
    [number_of_steps |-> steps, step_sizes |-> step_sizes,
     pc |-> "idle", reserved |-> 0, values |-> <<>>, i |-> 0, j |-> 0, k |-> 0]

NoGrid == CubicGrid(<<0, 0, 0>>, <<0, 0, 0>>)

(***************************************************************************)
(* The SCF solvers.  A matrix is modelled by the number of the iteration   *)
(* that calculated it (0: the initial guess, -1: a matrix handed in by the *)
(* caller); the alpha and beta histories of the UHF environment grow       *)
(* together and are modelled as one history each.                          *)
(***************************************************************************)
\* StepCollection::add: appends the step and returns the collection.
add(collection, step) == Append(collection, step)

PlainStepsDiagonalizationFirst ==
    add(add(add(add(<<>>, "UHFFockMatrixDiagonalization"),
                    "UHFDensityMatrixCalculation"),
                "UHFFockMatrixCalculation"),
        "UHFElectronicEnergyCalculation")

\* UHFSCFSolver::Plain: plain_uhf_scf_cycle
PlainSteps ==
    add(add(add(add(<<>>, "UHFDensityMatrixCalculation"),
                    "UHFFockMatrixCalculation"),
                "UHFFockMatrixDiagonalization"),
        "UHFElectronicEnergyCalculation")

\* UHFSCFSolver::DIIS: diis_uhf_scf_cycle
DIISSteps ==
    add(add(add(add(add(<<>>, "UHFDensityMatrixCalculation"),
                        "UHFFockMatrixCalculation"),
                    "UHFErrorCalculation"),
                "UHFFockMatrixDIIS"),
        "UHFElectronicEnergyCalculation")

\* IterativeAlgorithm(steps, convergence_criterion, maximum_number_of_iterations):
\* pc is the number of steps executed in the current iteration, executed
\* their names, iteration the number of completed iterations.
IterativeAlgorithm(solver, steps, maximum_number_of_iterations) ==
    [solver |-> solver, steps |-> steps,
     maximum_number_of_iterations |-> maximum_number_of_iterations,
     state |-> "Running", iteration |-> 0, pc |-> 0, executed |-> <<>>,
     thrown |-> "none"]

\* UHFSCFSolver::Plain(threshold, maximum_number_of_iterations)
Plain(maximum_number_of_iterations) ==
    IterativeAlgorithm("Plain", PlainSteps, maximum_number_of_iterations)

\* UHFSCFSolver::DIIS(minimum_subspace_dimension, maximum_subspace_dimension,
\*                    threshold, maximum_number_of_iterations)
DIIS(maximum_number_of_iterations) ==
    IterativeAlgorithm("DIIS", DIISSteps, maximum_number_of_iterations)

\* DIISRHFSCFSolver::DIISRHFSCFSolver: the two subspace dimensions and the
\* empty deques.  updates counts the calls of calculateNewFockMatrix; n,
\* solved, combined and returned describe the last call: the subspace
\* dimension it read, whether it solved B y = b, the Fock matrices of the
\* linear combination, and the matrix it returned.
DIISRHFSCFSolver(minimum_subspace_dimension, maximum_subspace_dimension) ==
    [minimum_subspace_dimension |-> minimum_subspace_dimension,
     maximum_subspace_dimension |-> maximum_subspace_dimension,
     fock_matrix_deque |-> <<>>, error_matrix_deque |-> <<>>,
     updates |-> 0, n |-> 0, solved |-> FALSE, combined |-> <<>>,
     returned |-> [extrapolated |-> FALSE, f_AO |-> 0]]

DIISEnabledAbove(n, minimum_subspace_dimension) == n > minimum_subspace_dimension

\* if (n >= this->minimum_subspace_dimension)
DIISEnabled(n, minimum_subspace_dimension) == n >= minimum_subspace_dimension

SubspaceCollapseNever(n, maximum_subspace_dimension) == FALSE

isSatisfiedOrNot(env) == BOOLEAN

SubspaceCollapseLate(n, maximum_subspace_dimension) == n > maximum_subspace_dimension + 1

\* if (n > this->maximum_subspace_dimension)
SubspaceCollapse(n, maximum_subspace_dimension) == n > maximum_subspace_dimension

\* DIISRHFSCFSolver::calculateNewFockMatrix, on the solver d: the Fock
\* matrix of this call and its error matrix are recorded, the DIIS equations
\* are solved over the n recorded pairs when DIIS is enabled, and the oldest
\* pair is discarded afterwards when n is above the maximum.
calculateNewFockMatrix(d) ==
    LET f_AO == d.updates + 1
        fock_matrix_deque == Append(d.fock_matrix_deque, f_AO)
        error_matrix_deque == Append(d.error_matrix_deque, f_AO)
        n == Len(error_matrix_deque)
        enabled == DIISEnabled(n, d.minimum_subspace_dimension)
        collapse == SubspaceCollapse(n, d.maximum_subspace_dimension)
    IN  [d EXCEPT !.fock_matrix_deque = IF collapse THEN Tail(fock_matrix_deque)
                                        ELSE fock_matrix_deque,
                  !.error_matrix_deque = IF collapse THEN Tail(error_matrix_deque)
                                         ELSE error_matrix_deque,
                  !.updates = f_AO,
                  !.n = n,
                  !.solved = enabled,
                  !.combined = IF enabled THEN fock_matrix_deque ELSE <<>>,
                  !.returned = [extrapolated |-> enabled, f_AO |-> f_AO]]

\* The histories of an SCF environment.
Histories ==
    {"coefficient_matrices", "density_matrices", "fock_matrices", "error_vectors",
     "electronic_energies"}

\* The environment of a run: the initial guess of the coefficient matrix,
\* and no other iterate yet.
WithCoreGuess ==
    [coefficient_matrices |-> <<0>>, density_matrices |-> <<>>, fock_matrices |-> <<>>,
     error_vectors |-> <<>>, electronic_energies |-> <<>>,
     replacements |-> 0, called |-> "none", undefined |-> FALSE]

\* The history a step appends its result to.
HistoryOf(step) ==
    CASE step = "UHFDensityMatrixCalculation" -> "density_matrices"
      [] step = "UHFFockMatrixCalculation" -> "fock_matrices"
      [] step = "UHFFockMatrixDiagonalization" -> "coefficient_matrices"
      [] step = "UHFErrorCalculation" -> "error_vectors"
      [] step = "UHFFockMatrixDIIS" -> "coefficient_matrices"
      [] step = "UHFElectronicEnergyCalculation" -> "electronic_energies"

\* Step::execute(environment) in iteration k: push_back of the step's result.
execute(step, env, k) ==
    [env EXCEPT ![HistoryOf(step)] = Append(@, k)]

\* The read-only getters of the RHF environment: the member each one reads.
def_readonly ==
    [coefficient_matrices |-> "coefficient_matrices",
     density_matrices |-> "density_matrices",
     fock_matrices |-> "fock_matrices",
     error_vectors |-> "fock_matrices"]

\* replace_current_*: pop_back, then push_back of the caller's matrix;
\* called records the binding last called.
\* replace_current_error_vectors works on fock_matrices.
ReplacedHistory ==
    [replace_current_coefficient_matrix |-> "coefficient_matrices",
     replace_current_density_matrix |-> "density_matrices",
     replace_current_fock_matrix |-> "fock_matrices",
     replace_current_error_vectors |-> "fock_matrices"]

\* pop_back on an empty deque is undefined behaviour: the environment is
\* then marked undefined and the model follows it no further.
replace_current(binding, env) ==
    LET h == ReplacedHistory[binding]
    IN  IF env[h] = <<>>
        THEN [env EXCEPT !.undefined = TRUE, !.replacements = @ + 1,
                         !.called = binding]
        ELSE [env EXCEPT ![h] = Append(SubSeq(@, 1, Len(@) - 1), -1),
                         !.replacements = @ + 1, !.called = binding]

\* ConvergenceCriterion::isSatisfied: the norm of the difference of the last
\* two density matrices is below the threshold or not; not satisfied with
\* fewer than two iterates.
isSatisfied(env) ==
    IF Len(env.density_matrices) < 2 THEN {FALSE} ELSE BOOLEAN

RunningUnlessConverged(a) == a.state # "Converged"

\* The algorithm is in its loop.
Running(a) == a.state = "Running"

MaximumExceeded(iteration, maximum_number_of_iterations) ==
    iteration > maximum_number_of_iterations

\* The iteration count has reached the configured maximum.
MaximumReached(iteration, maximum_number_of_iterations) ==
    iteration >= maximum_number_of_iterations

NoAlgorithm == IterativeAlgorithm("none", <<>>, 0)

NoEnvironment == WithCoreGuess

NoDIIS == DIISRHFSCFSolver(0, 0)

\* The solvers of the runs: UHFSCFSolver::Plain(...), UHFSCFSolver::DIIS(...).
SCFInit ==
    /\ phase = "start"
    /\ M = 0
    /\ N = 0
    /\ vertex_weights = <<>>
    /\ onv = [live |-> FALSE, representation |-> {}, applications |-> 0]
    /\ fe = [pc |-> "idle", thrown |-> "none", dim |-> 0, I |-> 0, onv |-> {},
             calls |-> <<>>, advances |-> 0]
    /\ ev = [pc |-> "idle", kind |-> "none", K |-> 0, thrown |-> "none",
             container |-> <<>>, filled |-> FALSE]
    /\ last = [op |-> "none", args |-> <<>>, thrown |-> "none", result |-> <<>>]
    /\ environment = WithCoreGuess
    /\ grid = NoGrid
    /\ \E maximum_number_of_iterations \in 1..MaxIterations :
           \/ /\ algorithm = Plain(maximum_number_of_iterations)
              /\ diis = NoDIIS
           \/ /\ algorithm = DIIS(maximum_number_of_iterations)
              /\ \E minimum \in 1..(MaxSubspace + 1), maximum \in 1..MaxSubspace :
                     diis = DIISRHFSCFSolver(minimum, maximum)

\* StepCollection::execute, one step of it: the next step of the iteration.
ExecuteStep ==
    /\ Running(algorithm)
    /\ ~ environment.undefined
    /\ algorithm.pc < Len(algorithm.steps)
    /\ LET step == algorithm.steps[algorithm.pc + 1]
       IN  /\ environment' = execute(step, environment, algorithm.iteration + 1)
           /\ diis' = IF step = "UHFFockMatrixDIIS" THEN calculateNewFockMatrix(diis)
                      ELSE diis
           /\ algorithm' = [algorithm EXCEPT !.pc = @ + 1,
                                             !.executed = Append(@, step)]
    /\ UNCHANGED onvvars
    /\ UNCHANGED grid

\* IterativeAlgorithm: after the last step of an iteration the criterion is
\* evaluated; the algorithm stops when it is satisfied or when the iteration
\* count has reached the maximum, and starts the next iteration otherwise.
CheckConvergence ==
    /\ Running(algorithm)
    /\ ~ environment.undefined
    /\ algorithm.pc = Len(algorithm.steps)
    /\ \E satisfied \in isSatisfied(environment) :
           LET iteration == algorithm.iteration + 1
           IN  algorithm' =
                   IF satisfied
                   THEN [algorithm EXCEPT !.iteration = iteration, !.state = "Converged"]
                   ELSE IF MaximumReached(iteration, algorithm.maximum_number_of_iterations)
                   THEN [algorithm EXCEPT !.iteration = iteration,
                                          !.state = "MaxIterationsReached"]
                   ELSE [algorithm EXCEPT !.iteration = iteration, !.pc = 0,
                                          !.executed = <<>>]
    /\ UNCHANGED <<environment, diis>>
    /\ UNCHANGED onvvars
    /\ UNCHANGED grid

\* environment.replace_current_...(new matrix), called from Python.
ReplaceCurrent(binding) ==
    /\ ~ environment.undefined
    /\ environment.replacements < MaxReplacements
    /\ environment' = replace_current(binding, environment)
    /\ UNCHANGED <<algorithm, diis>>
    /\ UNCHANGED onvvars
    /\ UNCHANGED grid

SCFNext ==
    \/ ExecuteStep
    \/ CheckConvergence
    \/ \E binding \in DOMAIN ReplacedHistory : ReplaceCurrent(binding)

SCFSpec == SCFInit /\ [][SCFNext]_vars

(***************************************************************************)
(* CubicGrid.  A step size is a double; the model's step sizes are the     *)
(* multiples of 1/2 (exact as doubles), held as their number of halves.    *)
(***************************************************************************)
\* return (step_sizes[0] + 1) * (step_sizes[1] + 1) * (step_sizes[2] + 1);
\* the double product converted to size_t.
numberOfPoints(g) ==
    ((g.step_sizes[1] + 2) * (g.step_sizes[2] + 2) * (g.step_sizes[3] + 2)) \div 8

\* The three nested loops of forEach have a point (i, j, k) to call back.
InsideLoops(g) ==
    /\ g.i < g.number_of_steps[1]
    /\ g.number_of_steps[2] > 0
    /\ g.number_of_steps[3] > 0

\* k++, then j++, then i++.
NextPoint(g) ==
    IF g.k + 1 < g.number_of_steps[3] THEN [g EXCEPT !.k = @ + 1]
    ELSE IF g.j + 1 < g.number_of_steps[2] THEN [g EXCEPT !.k = 0, !.j = @ + 1]
    ELSE [g EXCEPT !.k = 0, !.j = 0, !.i = @ + 1]

GridInit ==
    /\ phase = "start"
    /\ M = 0
    /\ N = 0
    /\ vertex_weights = <<>>
    /\ onv = [live |-> FALSE, representation |-> {}, applications |-> 0]
    /\ fe = [pc |-> "idle", thrown |-> "none", dim |-> 0, I |-> 0, onv |-> {},
             calls |-> <<>>, advances |-> 0]
    /\ ev = [pc |-> "idle", kind |-> "none", K |-> 0, thrown |-> "none",
             container |-> <<>>, filled |-> FALSE]
    /\ last = [op |-> "none", args |-> <<>>, thrown |-> "none", result |-> <<>>]
    /\ algorithm = NoAlgorithm
    /\ environment = NoEnvironment
    /\ diis = NoDIIS
    /\ \E steps \in (0..MaxSteps) \X (0..MaxSteps) \X (0..MaxSteps),
          step_sizes \in (1..MaxStepSize) \X (1..MaxStepSize) \X (1..MaxStepSize) :
           grid = CubicGrid(steps, step_sizes)

\* CubicGrid::evaluate, up to the loop: values.reserve(numberOfPoints()).
GridEvaluate ==
    /\ grid.pc = "idle"
    /\ grid' = [grid EXCEPT !.reserved = numberOfPoints(grid),
                            !.pc = IF InsideLoops(grid) THEN "forEach" ELSE "done"]
    /\ UNCHANGED onvvars
    /\ UNCHANGED scfvars

\* One callback of forEach inside evaluate: values.push_back(...) for the
\* point (i, j, k), then the loop increments.
GridCallback ==
    /\ grid.pc = "forEach"
    /\ LET pushed == [grid EXCEPT !.values = Append(@, <<grid.i, grid.j, grid.k>>)]
           next == NextPoint(pushed)
       IN  grid' = [next EXCEPT !.pc = IF InsideLoops(next) THEN "forEach" ELSE "done"]
    /\ UNCHANGED onvvars
    /\ UNCHANGED scfvars

GridNext ==
    \/ GridEvaluate
    \/ GridCallback

GridSpec == GridInit /\ [][GridNext]_vars

(***************************************************************************)
(* The state machine.  A caller constructs one basis, then calls its       *)
(* operations one after the other (the code is single-threaded).           *)
(***************************************************************************)
SmallBases == {<<m, n>> : m \in 0..MaxM, n \in 0..MaxM} \cap {b \in Nat \X Nat : b[2] <= b[1]}

\* Bases around the width of int: few enough configurations to enumerate.
WideBases == {<<IntBits, 1>>, <<IntBits, IntBits>>, <<IntBits + 1, 1>>, <<IntBits + 1, IntBits>>}

ExcessBases == {<<m, m + x>> : m \in 0..MaxM, x \in 1..MaxExcess}

OverflowBases == {<<OverflowM, OverflowN>>}

ConstructorInputs == SmallBases \cup WideBases \cup ExcessBases \cup OverflowBases

\* onv.applications counts the calls of transformONVToNextPermutation since
\* the representation was last set.
NoONV == [live |-> FALSE, representation |-> {}, applications |-> 0]

FeIdle == [pc |-> "idle", thrown |-> "none", dim |-> 0, I |-> 0, onv |-> {},
           calls |-> <<>>, advances |-> 0]

EvIdle == [pc |-> "idle", kind |-> "none", K |-> 0, thrown |-> "none",
           container |-> <<>>, filled |-> FALSE]

LastIdle == [op |-> "none", args |-> <<>>, thrown |-> "none", result |-> <<>>]

Init ==
    /\ phase = "start"
    /\ M = 0
    /\ N = 0
    /\ vertex_weights = <<>>
    /\ onv = NoONV
    /\ fe = FeIdle
    /\ ev = EvIdle
    /\ last = LastIdle
    /\ algorithm = NoAlgorithm
    /\ environment = NoEnvironment
    /\ diis = NoDIIS
    /\ grid = NoGrid

\* SpinUnresolvedONVBasis onv_basis {nOrb, nElec};
Construct(nOrb, nElec) ==
    /\ phase = "start"
    /\ LET c == Constructor(nOrb, nElec)
       IN  /\ phase' = IF c.undefined THEN "crashed" ELSE "ready"
           /\ vertex_weights' = c.vertex_weights
    /\ M' = nOrb
    /\ N' = nElec
    /\ last' = [op |-> "SpinUnresolvedONVBasis", args |-> <<nOrb, nElec>>,
                thrown |-> "none", result |-> <<>>]
    /\ UNCHANGED <<onv, fe, ev, algorithm, environment, diis, grid>>

\* SpinUnresolvedONVBasis::calculateDimension(nOrb, nElec), a static function.
CalculateDimension(nOrb, nElec) ==
    /\ phase = "start"
    /\ LET d == calculateDimension(nOrb, nElec)
       IN  last' = [op |-> "calculateDimension", args |-> <<nOrb, nElec>>,
                    thrown |-> d.thrown, result |-> d.value]
    /\ UNCHANGED <<phase, M, N, vertex_weights, onv, fe, ev, algorithm, environment, diis, grid>>

\* One call at a time: forEach and evaluateOperatorDense are modelled in
\* steps, and no other call starts between their steps.
NoCallInProgress ==
    /\ fe.pc # "loop"
    /\ ev.pc \notin {"container", "evaluate"}

\* A basis whose configurations fit a bit pattern and whose dimension is
\* known (and small enough to enumerate).
EnumerableBasis ==
    /\ phase = "ready"
    /\ M <= WordBits
    /\ dimension.thrown = "none"
    /\ IsSmall(dimension.value)

\* The operations on configurations are called on such a basis.
Enumerable == EnumerableBasis /\ NoCallInProgress

Addresses == 0..(Val(dimension.value) - 1)

\* SpinUnresolvedONVBasis::constructONVFromAddress
ConstructONVFromAddress(address) ==
    /\ Enumerable
    /\ ~ onv.live
    /\ \E r \in representationOf(Sz(address)) :
           onv' = [live |-> TRUE, representation |-> r, applications |-> 0]
    /\ last' = [op |-> "constructONVFromAddress", args |-> <<address>>,
                thrown |-> "none", result |-> onv'.representation]
    /\ fe' = FeIdle
    /\ ev' = EvIdle
    /\ UNCHANGED <<phase, M, N, vertex_weights, algorithm, environment, diis, grid>>

\* SpinUnresolvedONVBasis::transformONVCorrespondingToAddress
TransformONVCorrespondingToAddress(address) ==
    /\ Enumerable
    /\ onv.live
    /\ \E r \in representationOf(Sz(address)) :
           onv' = [onv EXCEPT !.representation = r, !.applications = 0]
    /\ last' = [op |-> "transformONVCorrespondingToAddress", args |-> <<address>>,
                thrown |-> "none", result |-> onv'.representation]
    /\ fe' = FeIdle
    /\ ev' = EvIdle
    /\ UNCHANGED <<phase, M, N, vertex_weights, algorithm, environment, diis, grid>>

\* The bit patterns of the configurations of the basis: N of the M lowest
\* bits set.
IsConfiguration(representation) ==
    /\ representation \subseteq 0..(M - 1)
    /\ Cardinality(representation) = N

\* The configuration with the N lowest orbitals occupied.
FirstConfiguration == 0..(N - 1)

\* The configuration with the N highest orbitals occupied.
LastConfiguration == (M - N)..(M - 1)

\* SpinUnresolvedONVBasis::transformONVToNextPermutation, called (as its
\* contract requires) on a configuration of the basis that is not the last.
TransformONVToNextPermutation ==
    /\ Enumerable
    /\ onv.live
    /\ IsConfiguration(onv.representation)
    /\ onv.representation # LastConfiguration
    /\ onv' = [onv EXCEPT !.representation = nextPermutationOf(onv.representation),
                          !.applications = @ + 1]
    /\ last' = [op |-> "transformONVToNextPermutation", args |-> <<onv.representation>>,
                thrown |-> "none", result |-> onv'.representation]
    /\ fe' = FeIdle
    /\ ev' = EvIdle
    /\ UNCHANGED <<phase, M, N, vertex_weights, algorithm, environment, diis, grid>>

\* The const member functions below neither read nor write the caller's ONV:
\* they are explored for a caller that holds none.

\* SpinUnresolvedONVBasis::forEach, up to the loop: dimension() and
\* constructONVFromAddress(0).
ForEachStart ==
    /\ phase = "ready"
    /\ NoCallInProgress
    /\ ~ onv.live
    /\ M <= WordBits \/ dimension.thrown # "none"
    /\ IF dimension.thrown # "none"
       THEN fe' = [FeIdle EXCEPT !.pc = "thrown", !.thrown = dimension.thrown]
       ELSE /\ IsSmall(dimension.value)
            /\ \E r \in representationOf(Sz(0)) :
                fe' = [FeIdle EXCEPT !.pc = IF Val(dimension.value) > 0 THEN "loop" ELSE "done",
                                     !.dim = Val(dimension.value), !.onv = r]
    /\ ev' = EvIdle
    /\ last' = LastIdle
    /\ UNCHANGED <<phase, M, N, vertex_weights, onv, algorithm, environment, diis, grid>>

\* One iteration of the loop of forEach: the callback, then the advance.
ForEachIteration ==
    /\ phase = "ready"
    /\ fe.pc = "loop"
    /\ fe.I < fe.dim
    /\ fe' = [fe EXCEPT
                !.calls = Append(@, [onv |-> fe.onv, I |-> fe.I]),
                !.onv = IF fe.I < fe.dim - 1 THEN nextPermutationOf(@) ELSE @,
                !.advances = IF fe.I < fe.dim - 1 THEN @ + 1 ELSE @,
                !.I = @ + 1,
                !.pc = IF fe.I + 1 < fe.dim THEN "loop" ELSE "done"]
    /\ UNCHANGED <<phase, M, N, vertex_weights, onv, ev, last, algorithm, environment, diis, grid>>

\* SpinUnresolvedONVBasis::calculateOneElectronCouplings
CalculateOneElectronCouplings ==
    /\ Enumerable
    /\ ~ onv.live
    /\ last.op # "calculateOneElectronCouplings"
    /\ \E first \in representationOf(Sz(0)) :
           last' = [op |-> "calculateOneElectronCouplings", args |-> <<>>, thrown |-> "none",
                    result |-> calculateOneElectronCouplings(first, Val(dimension.value))]
    /\ fe' = FeIdle
    /\ ev' = EvIdle
    /\ UNCHANGED <<phase, M, N, vertex_weights, onv, algorithm, environment, diis, grid>>

\* SpinUnresolvedONVBasis::countTotalOneElectronCouplings
CountTotalOneElectronCouplings ==
    /\ phase = "ready"
    /\ NoCallInProgress
    /\ ~ onv.live
    /\ last.op # "countTotalOneElectronCouplings"
    /\ last' = [op |-> "countTotalOneElectronCouplings", args |-> <<>>,
                thrown |-> countTotalOneElectronCouplings.thrown,
                result |-> countTotalOneElectronCouplings.value]
    /\ fe' = FeIdle
    /\ ev' = EvIdle
    /\ UNCHANGED <<phase, M, N, vertex_weights, onv, algorithm, environment, diis, grid>>

\* SpinUnresolvedONVBasis::countTotalTwoElectronCouplings
CountTotalTwoElectronCouplings ==
    /\ phase = "ready"
    /\ NoCallInProgress
    /\ ~ onv.live
    /\ last.op # "countTotalTwoElectronCouplings"
    /\ last' = [op |-> "countTotalTwoElectronCouplings", args |-> <<>>,
                thrown |-> countTotalTwoElectronCouplings.thrown,
                result |-> countTotalTwoElectronCouplings.value]
    /\ fe' = FeIdle
    /\ ev' = EvIdle
    /\ UNCHANGED <<phase, M, N, vertex_weights, onv, algorithm, environment, diis, grid>>

\* SpinUnresolvedONVBasis::countOneElectronCouplings(onv) and
\* countTwoElectronCouplings(onv), called on a configuration of the basis.
CountElectronCouplings(op) ==
    /\ Enumerable
    /\ onv.live
    /\ IsConfiguration(onv.representation)
    /\ last' = [op |-> op, args |-> <<onv.representation>>, thrown |-> "none",
                result |-> IF op = "countOneElectronCouplings"
                           THEN countOneElectronCouplings(onv.representation)
                           ELSE countTwoElectronCouplings(onv.representation)]
    /\ fe' = FeIdle
    /\ ev' = EvIdle
    /\ UNCHANGED <<phase, M, N, vertex_weights, onv, algorithm, environment, diis, grid>>

\* The numbers of orbitals of the operators handed to evaluateOperatorDense.
OperatorOrbitals == {K \in {M - 1, M, M + 1} : K >= 0}

\* SpinUnresolvedONVBasis::evaluateOperatorDense, up to its check.  The
\* two-electron overload wraps g into a GSQHamiltonian whose one-electron
\* part is Zero(g.numberOfOrbitals()) and calls the Hamiltonian overload,
\* whose check reads that number of orbitals.
EvaluateOperatorDense(kind, operatorOrbitals) ==
    /\ phase = "ready"
    /\ NoCallInProgress
    /\ ~ onv.live
    /\ ev' = IF Incompatible(operatorOrbitals)
             THEN [EvIdle EXCEPT !.pc = "thrown", !.kind = kind, !.K = operatorOrbitals,
                                 !.thrown = "invalid_argument"]
             ELSE [EvIdle EXCEPT !.pc = "container", !.kind = kind, !.K = operatorOrbitals]
    /\ fe' = FeIdle
    /\ last' = LastIdle
    /\ UNCHANGED <<phase, M, N, vertex_weights, onv, algorithm, environment, diis, grid>>

\* MatrixRepresentationEvaluationContainer<SquareMatrix<double>> container {this->dimension()};
EvaluateContainer ==
    /\ ev.pc = "container"
    /\ ev' = IF dimension.thrown # "none"
             THEN [ev EXCEPT !.pc = "thrown", !.thrown = dimension.thrown]
             ELSE [ev EXCEPT !.pc = "evaluate", !.container = <<dimension.value>>]
    /\ UNCHANGED <<phase, M, N, vertex_weights, onv, fe, last, algorithm, environment, diis, grid>>

\* this->evaluate<SquareMatrix<double>>(f, container); return container.evaluation();
EvaluateFill ==
    /\ ev.pc = "evaluate"
    /\ ev' = [ev EXCEPT !.pc = "returned", !.filled = TRUE]
    /\ UNCHANGED <<phase, M, N, vertex_weights, onv, fe, last, algorithm, environment, diis, grid>>

Next ==
    \/ \E b \in ConstructorInputs : Construct(b[1], b[2])
    \/ \E b \in ConstructorInputs : CalculateDimension(b[1], b[2])
    \/ \E a \in Addresses : ConstructONVFromAddress(a)
    \/ \E a \in Addresses : TransformONVCorrespondingToAddress(a)
    \/ TransformONVToNextPermutation
    \/ ForEachStart
    \/ ForEachIteration
    \/ CalculateOneElectronCouplings
    \/ CountTotalOneElectronCouplings
    \/ CountTotalTwoElectronCouplings
    \/ \E op \in {"countOneElectronCouplings", "countTwoElectronCouplings"} :
           CountElectronCouplings(op)
    \/ \E kind \in OperatorKinds : \E K \in OperatorOrbitals : EvaluateOperatorDense(kind, K)
    \/ EvaluateContainer
    \/ EvaluateFill

Spec == Init /\ [][Next]_vars

(***************************************************************************)
(* nextPermutationOf on its own: a basis is constructed, an ONV holds the  *)
(* configuration with the N lowest orbitals occupied, and                  *)
(* transformONVToNextPermutation is called until the last configuration.   *)
(***************************************************************************)
\* Bases up to the width of the word.
WordBases == {<<WordBits, 1>>, <<WordBits, WordBits - 1>>, <<WordBits, WordBits>>}

PermutationBases == SmallBases \cup WideBases \cup WordBases

PermutationInit ==
    /\ phase = "ready"
    /\ \E b \in PermutationBases :
           /\ M = b[1]
           /\ N = b[2]
           /\ vertex_weights = Constructor(b[1], b[2]).vertex_weights
           /\ onv = [live |-> TRUE, representation |-> FirstConfiguration, applications |-> 0]
    /\ fe = FeIdle
    /\ ev = EvIdle
    /\ last = LastIdle
    /\ algorithm = NoAlgorithm
    /\ environment = NoEnvironment
    /\ diis = NoDIIS
    /\ grid = NoGrid

PermutationNext == TransformONVToNextPermutation

PermutationSpec == PermutationInit /\ [][PermutationNext]_vars

(***************************************************************************)
(* Properties.                                                             *)
(***************************************************************************)
\* The exact binomial coefficient C(n, k), 0 <= k <= n.
Binomial(n, k) == IF n = 0 THEN Exact(1) ELSE PascalRow(n)[k + 1]

\* A size_t as an exact number.
ToExact(a) == <<a[1], a[2], a[3], a[4], 0>>

\* (-1)^k
Parity(k) == IF k % 2 = 0 THEN 1 ELSE 0 - 1

\* C1: on every basis with N <= M, the address of the configuration that
\* representationOf returns for an address a in [0, C(M,N)) is a, and
\* representationOf returns c for the address of every configuration c
\* (N set bits, all below M).
C1_RoundTrip ==
    (EnumerableBasis /\ N <= M) =>
        /\ last.op \in {"constructONVFromAddress", "transformONVCorrespondingToAddress"}
               => addressOf(last.result) = Sz(last.args[1])
        /\ (onv.live /\ IsConfiguration(onv.representation))
               => representationOf(addressOf(onv.representation)) = {onv.representation}

\* C2: a completed forEach has invoked the callback exactly C(M,N) times,
\* with the address i at step i, on pairwise distinct configurations of the
\* basis (so that each configuration is visited exactly once).
C2_ForEachVisitsEachConfigurationOnce ==
    (phase = "ready" /\ N <= M /\ fe.pc = "done") =>
        /\ Exact(Len(fe.calls)) = Binomial(M, N)
        /\ \A i \in 1..Len(fe.calls) : fe.calls[i].I = i - 1
        /\ \A i, j \in 1..Len(fe.calls) : i # j => fe.calls[i].onv # fe.calls[j].onv
        /\ \A i \in 1..Len(fe.calls) : IsConfiguration(fe.calls[i].onv)

\* C3: bit-pattern order is address order: a next permutation raises the
\* address by one (so k of them from address 0 give address k), and the ONV
\* that forEach hands to the callback with the address I has the address I.
C3_PermutationOrderIsAddressOrder ==
    /\ (EnumerableBasis /\ N <= M /\ last.op = "transformONVToNextPermutation")
           => addressOf(last.result) = SzAdd(addressOf(last.args[1]), Sz(1))
    /\ (phase = "ready" /\ N <= M /\ fe.pc = "done")
           => \A i \in 1..Len(fe.calls) : addressOf(fe.calls[i].onv) = Sz(fe.calls[i].I)

\* C4: starting from the configuration of address 0, every application of
\* nextPermutationOf gives a strictly greater bit pattern, the applications
\* end after exactly C(M,N) - 1 of them, and the pattern is then the
\* configuration of address C(M,N) - 1.
C4_NextPermutationIncreasesUpToTheLast ==
    LET dim == Val(dimension.value)
        r == onv.representation
    IN  /\ IsConfiguration(r)
        /\ onv.applications = 0 => addressOf(r) = Sz(0)
        /\ last.op = "transformONVToNextPermutation" => BitLess(last.args[1], r)
        /\ onv.applications <= dim - 1
        /\ (onv.applications = dim - 1) <=> (r = LastConfiguration)
        /\ onv.applications = dim - 1 => addressOf(r) = Sz(dim - 1)

\* The last configuration of a basis of IntBits + 1 orbitals has been reached.
C4_Witness ==
    /\ M = IntBits + 1
    /\ onv.applications = IntBits
    /\ onv.representation = LastConfiguration
    /\ last.op = "transformONVToNextPermutation"

\* C5: after any sequence of "set to address" and "advance to the next
\* permutation" calls, the ONV has exactly N set bits, all below M.
C5_ConfigurationsHaveNBitsBelowM ==
    (phase = "ready" /\ N <= M /\ onv.live) => IsConfiguration(onv.representation)

\* C6: for N <= M the constructor's vertex_weights[M][N] is the binomial
\* coefficient C(M,N), and calculateDimension(M, N) returns that value.
C6_TableCornerIsTheDimension ==
    (phase = "ready" /\ N <= M) =>
        /\ ToExact(vertexWeight(M, N)) = Binomial(M, N)
        /\ calculateDimension(M, N) = [thrown |-> "none", value |-> vertexWeight(M, N)]

\* C7: constructing a basis with N > M throws an invalid-argument error and
\* builds no table (hence no basis to produce addresses from).
C7_TooManyElectronsRejected ==
    (last.op = "SpinUnresolvedONVBasis" /\ last.args[2] > last.args[1]) =>
        /\ last.thrown = "invalid_argument"
        /\ phase # "ready"
        /\ vertex_weights = <<>>

\* C8: when the exact C(M,N) does not fit size_t, the construction and the
\* dimension computation throw an overflow error; no wrapped or inexact
\* vertex weight or dimension is produced.
C8_OverflowRejected ==
    /\ (last.op \in {"SpinUnresolvedONVBasis", "calculateDimension"}
            /\ last.args[2] <= last.args[1]
            /\ ~ FitsSizeT(Binomial(last.args[1], last.args[2])))
           => last.thrown = "overflow_error"
    /\ (phase = "ready" /\ N <= M) => ToExact(vertexWeight(M, N)) = Binomial(M, N)
    /\ (last.op = "calculateDimension" /\ last.thrown = "none")
           => ToExact(last.result) = Binomial(last.args[1], last.args[2])

\* C9: evaluateOperatorDense gets past its check only with an operator of M
\* orbitals; with any other it has thrown invalid_argument, and no container
\* was created and nothing was evaluated into one.
C9_MismatchThrowsBeforeAnyEvaluation ==
    /\ ev.pc \in {"container", "evaluate", "returned"} => ev.K = M
    /\ (ev.pc # "idle" /\ ev.K # M) =>
           /\ ev.pc = "thrown"
           /\ ev.thrown = "invalid_argument"
           /\ ev.container = <<>>
           /\ ~ ev.filled

\* A two-electron operator with one orbital too few has been rejected.
C9_Witness ==
    /\ ev.pc = "thrown"
    /\ ev.thrown = "invalid_argument"
    /\ ev.kind = "ScalarGSQTwoElectronOperator"
    /\ ev.K = M - 1
    /\ ev.container = <<>>

\* C10: every off-diagonal triplet of calculateOneElectronCouplings for an
\* ONV with p occupied and q > p unoccupied has the value (-1)^k, k the
\* number of occupied orbitals strictly between p and q.
C10_CouplingSignIsParityOfOrbitalsBetween ==
    last.op = "calculateOneElectronCouplings" =>
        \A i \in 1..Len(last.result) :
            LET t == last.result[i]
            IN  (t.q > t.p /\ t.p \in t.onv /\ t.q \notin t.onv)
                    => t.value = Parity(Cardinality({r \in t.onv : t.p < r /\ r < t.q}))

\* Couplings over one and over two occupied orbitals have been recorded.
C10_Witness ==
    /\ last.op = "calculateOneElectronCouplings"
    /\ \E i, j \in 1..Len(last.result) :
           LET t == last.result[i]
               u == last.result[j]
           IN  /\ t.p \in t.onv /\ t.q \notin t.onv /\ t.value = 0 - 1
               /\ Cardinality({r \in t.onv : t.p < r /\ r < t.q}) = 1
               /\ u.p \in u.onv /\ u.q \notin u.onv /\ u.value = 1
               /\ Cardinality({r \in u.onv : u.p < r /\ r < u.q}) = 2

\* The positions of the off-diagonal triplets of a list of triplets.
OffDiagonal(triplets) == {i \in 1..Len(triplets) : triplets[i].row # triplets[i].col}

\* C11: every off-diagonal triplet (I, J, sign) recorded by
\* calculateOneElectronCouplings has a triplet (J, I, sign) with the same
\* sign in the same (p, q) matrix.
C11_CouplingsAreRecordedSymmetrically ==
    last.op = "calculateOneElectronCouplings" =>
        \A i \in OffDiagonal(last.result) :
            \E j \in 1..Len(last.result) :
                /\ last.result[j].index = last.result[i].index
                /\ last.result[j].row = last.result[i].col
                /\ last.result[j].col = last.result[i].row
                /\ last.result[j].value = last.result[i].value

\* Off-diagonal couplings have been recorded on a basis of IntBits orbitals.
C11_Witness ==
    /\ last.op = "calculateOneElectronCouplings"
    /\ M = IntBits
    /\ \E i \in OffDiagonal(last.result) : last.result[i].value = 1

\* C12: countTotalOneElectronCouplings() = (M-N)*N*dimension is the number of
\* off-diagonal triplets calculateOneElectronCouplings records, each ordered
\* pair (I, J) of coupled configurations being recorded once.
C12_CountIsTheNumberOfRecordedCouplings ==
    (last.op = "calculateOneElectronCouplings" /\ N <= M) =>
        LET off == OffDiagonal(last.result)
        IN  /\ countTotalOneElectronCouplings = [thrown |-> "none", value |-> Sz(Cardinality(off))]
            /\ Cardinality({<<last.result[i].row, last.result[i].col>> : i \in off})
                   = Cardinality(off)

\* C13: in every iteration the algorithm executes each step of its
\* collection once, in insertion order (plain: density matrix, Fock matrix,
\* Fock diagonalization, electronic energy; DIIS: density matrix, Fock
\* matrix, error, DIIS, electronic energy), and the convergence criterion is
\* evaluated only after the last step.
C13_StepsRunOnceInInsertionOrder ==
    [][LET order == IF algorithm.solver = "Plain"
                    THEN <<"UHFDensityMatrixCalculation", "UHFFockMatrixCalculation",
                           "UHFFockMatrixDiagonalization",
                           "UHFElectronicEnergyCalculation">>
                    ELSE <<"UHFDensityMatrixCalculation", "UHFFockMatrixCalculation",
                           "UHFErrorCalculation", "UHFFockMatrixDIIS",
                           "UHFElectronicEnergyCalculation">>
       IN  /\ Len(algorithm'.executed) <= Len(order)
           /\ algorithm'.executed = SubSeq(order, 1, Len(algorithm'.executed))
           /\ algorithm'.iteration # algorithm.iteration => algorithm.executed = order
      ]_vars

\* The DIIS solver has completed two iterations.
C13_Witness ==
    /\ algorithm.solver = "DIIS"
    /\ algorithm.iteration >= 2
    /\ algorithm.executed = algorithm.steps

\* C14: the algorithm starts in Running, leaves Running only right after a
\* complete execution of the step sequence, and once it is Converged or
\* MaxIterationsReached no step is executed and the state never changes.
C14_TerminalStatesAreFinal ==
    [][/\ algorithm.iteration = 0 => algorithm.state = "Running"
       /\ (algorithm.state = "Running" /\ algorithm'.state # "Running") =>
               /\ algorithm.executed = algorithm.steps
               /\ algorithm'.executed = algorithm.executed
               /\ algorithm'.state \in {"Converged", "MaxIterationsReached"}
       /\ algorithm.state # "Running" =>
               /\ algorithm' = algorithm
               /\ diis' = diis
      ]_vars

\* A run has converged before its maximum number of iterations.
C14_Witness ==
    /\ algorithm.state = "Converged"
    /\ algorithm.iteration < algorithm.maximum_number_of_iterations

\* C15: a run that does not converge ends in MaxIterationsReached without an
\* exception, after exactly maximum_number_of_iterations executions of the
\* step sequence; with a maximum of 1 the iterate history has 1 entry.
C15_MaxIterationsReachedAfterExactlyTheMaximum ==
    algorithm.state = "MaxIterationsReached" =>
        /\ algorithm.thrown = "none"
        /\ algorithm.iteration = algorithm.maximum_number_of_iterations
        /\ algorithm.executed = algorithm.steps
        /\ ~ environment.undefined =>
               Len(environment.density_matrices) = algorithm.maximum_number_of_iterations

\* A run of at most one iteration has ended without convergence.
C15_Witness ==
    /\ algorithm.state = "MaxIterationsReached"
    /\ algorithm.maximum_number_of_iterations = 1
    /\ Len(environment.density_matrices) = 1

\* s is t or the beginning of t.
IsPrefix(s, t) == Len(s) <= Len(t) /\ s = SubSeq(t, 1, Len(s))

\* C16: every history of an SCF environment is append-only: its earlier
\* content is a prefix of its later content.
C16_HistoriesAreAppendOnly ==
    [][\A h \in Histories : IsPrefix(environment[h], environment'[h])]_vars

\* C17: when the subspace holds fewer pairs than the minimum after the new
\* pair is recorded, the DIIS step solves no linear system and returns the
\* plain Fock matrix; the system is solved exactly when the subspace
\* dimension is at least the minimum.
C17_DIISEnabledFromTheMinimum ==
    [][diis'.updates # diis.updates =>
           LET size == Len(diis.fock_matrix_deque) + 1
           IN  /\ diis'.solved <=> size >= diis.minimum_subspace_dimension
               /\ ~ diis'.solved =>
                      /\ diis'.combined = <<>>
                      /\ diis'.returned = [extrapolated |-> FALSE, f_AO |-> diis'.updates]
               /\ diis'.solved => diis'.returned.extrapolated
               /\ algorithm'.thrown = "none"
      ]_vars

\* A DIIS update below the minimum subspace dimension.
C17_Witness ==
    /\ diis.updates > 0
    /\ diis.n < diis.minimum_subspace_dimension
    /\ ~ diis.solved

\* C18: after every DIIS update the Fock deque and the error deque have the
\* same length, at most maximum_subspace_dimension, and hold the most
\* recently recorded pairs in chronological order.
C18_DequesHoldTheMostRecentPairs ==
    diis.updates > 0 =>
        LET len == Len(diis.fock_matrix_deque)
            recent == [i \in 1..len |-> diis.updates - len + i]
        IN  /\ Len(diis.error_matrix_deque) = len
            /\ len >= 1
            /\ len <= diis.maximum_subspace_dimension
            /\ diis.fock_matrix_deque = recent
            /\ diis.error_matrix_deque = recent

\* The oldest pair has been discarded.
C18_Witness ==
    /\ diis.updates > diis.maximum_subspace_dimension
    /\ Len(diis.fock_matrix_deque) = diis.maximum_subspace_dimension
    /\ diis.fock_matrix_deque[1] > 1

\* C19: no DIIS extrapolation combines more than maximum_subspace_dimension
\* Fock matrices.
C19_ExtrapolationWithinTheMaximum ==
    Len(diis.combined) <= diis.maximum_subspace_dimension

\* The filled range of column m of the table.
InFilledRange(p, m) == m <= p /\ p <= M - N + m

\* C20 as stated: the first column is 1 on rows 0..M-N and the recurrence
\* holds for every table entry with m >= 1 and p >= 1.
C20_RecurrenceEverywhere ==
    phase = "ready" =>
        /\ \A p \in 0..(M - N) : vertexWeight(p, 0) = Sz(1)
        /\ \A p \in 1..M : \A m \in 1..N :
               vertexWeight(p, m) = SzAdd(vertexWeight(p - 1, m), vertexWeight(p - 1, m - 1))

\* C20 amended: the first column is 1 on rows 0..M-N (and 0 below them), the
\* recurrence (in size_t arithmetic) holds for the entries of the filled
\* range m <= p <= M-N+m of every column m >= 1, and the other entries are 0.
C20_RecurrenceInFilledRange ==
    phase = "ready" =>
        /\ \A p \in 0..M : vertexWeight(p, 0) = IF p <= M - N THEN Sz(1) ELSE Sz(0)
        /\ \A p \in 0..M : \A m \in 1..N :
               vertexWeight(p, m) =
                   IF InFilledRange(p, m)
                   THEN SzAdd(vertexWeight(p - 1, m), vertexWeight(p - 1, m - 1))
                   ELSE Sz(0)

\* A table with an entry above the filled range whose two upper neighbours
\* do not sum to it.
C20_Witness ==
    /\ phase = "ready"
    /\ N <= M
    /\ \E p \in 1..M : \E m \in 1..N :
           /\ ~ InFilledRange(p, m)
           /\ vertexWeight(p, m) = Sz(0)
           /\ SzAdd(vertexWeight(p - 1, m), vertexWeight(p - 1, m - 1)) # Sz(0)

\* The configurations of the basis in the order of their addresses: the
\* configuration of address I is Configurations[I + 1].
Configurations ==
    <<FirstConfiguration>> \o NextPermutations(FirstConfiguration, Val(dimension.value) - 1)

\* C21: for every configuration I, occupied orbital p and unoccupied orbital
\* q > p, calculateOneElectronCouplings records exactly one pair of triplets,
\* (I, J) and (J, I), and J is the address of the configuration I with
\* orbital p emptied and orbital q occupied.
C21_CoupledAddressIsTheAddressOfTheExcitedConfiguration ==
    (last.op = "calculateOneElectronCouplings" /\ N <= M) =>
        \A I \in Addresses :
            LET c == Configurations[I + 1]
                recorded == {i \in 1..Len(last.result) : last.result[i].onv = c}
            IN  \A p \in c : \A q \in (0..(M - 1)) \ c :
                    q > p =>
                        LET J == addressOf((c \ {p}) \cup {q})
                            pair == {i \in recorded : /\ last.result[i].p = p
                                                      /\ last.result[i].q = q}
                        IN  /\ Cardinality(pair) = 2
                            /\ \E i, j \in pair :
                                   /\ last.result[i].row = Sz(I)
                                   /\ last.result[i].col = J
                                   /\ last.result[j].row = J
                                   /\ last.result[j].col = Sz(I)

\* C22: forEach and calculateOneElectronCouplings advance the configuration
\* exactly dimension - 1 times in a sweep, each time from a configuration of
\* an address below dimension - 1, never from the final one.
C22_NoAdvanceFromTheFinalAddress ==
    /\ (phase = "ready" /\ N <= M /\ fe.pc = "done") =>
           /\ fe.advances = fe.dim - 1
           /\ \A i \in 1..(Len(fe.calls) - 1) :
                  /\ IsConfiguration(fe.calls[i].onv)
                  /\ fe.calls[i].onv # LastConfiguration
                  /\ SzLess(addressOf(fe.calls[i].onv), Sz(fe.dim - 1))
    /\ (last.op = "calculateOneElectronCouplings" /\ N <= M) =>
           \A i \in 1..Len(last.result) :
               LET t == last.result[i]
               IN  (t.p = t.q /\ SzLess(t.row, Sz(Val(dimension.value) - 1))) =>
                       /\ IsConfiguration(t.onv)
                       /\ t.onv # LastConfiguration
                       /\ SzLess(addressOf(t.onv), Sz(Val(dimension.value) - 1))

\* C28: representationOf sets the bit of every occupied orbital, also of the
\* orbitals 31 and higher, and no other bit: the representation of an
\* address a is a configuration of the basis, and its address is a.
C28_RepresentationHasTheBitsOfTheOccupiedOrbitals ==
    (EnumerableBasis /\ N <= M) =>
        \A a \in Addresses : \A r \in representationOf(Sz(a)) :
            /\ r = Configurations[a + 1]
            /\ addressOf(r) = Sz(a)

\* C29: in calculateOneElectronCouplings the weight subtracted for the
\* annihilated electron is at most I, and every recorded coupled address J
\* has I < J < dimension.
C29_CoupledAddressesAreAboveIAndBelowTheDimension ==
    (last.op = "calculateOneElectronCouplings" /\ N <= M) =>
        \A i \in 1..Len(last.result) :
            LET t == last.result[i]
                I == IF t.row = t.col \/ SzLess(t.row, t.col) THEN t.row ELSE t.col
                J == IF SzLess(t.row, t.col) THEN t.col ELSE t.row
                e1 == Cardinality({r \in t.onv : r < t.p})
            IN  /\ t.p \in t.onv
                /\ SzLeq(vertexWeight(t.p, e1 + 1), I)
                /\ t.q > t.p => (SzLess(I, J) /\ SzLess(J, dimension.value))

\* The configurations that differ from c in n orbitals, i.e. by an n-fold
\* excitation, and have a larger address than c.
ExcitedAbove(c, n) ==
    LET configs == Configurations
    IN  {j \in 1..Len(configs) : /\ Cardinality(c \ configs[j]) = n
                                 /\ SzLess(addressOf(c), addressOf(configs[j]))}

\* C24: for every configuration of the basis, countTwoElectronCouplings(onv)
\* is the number of configurations with a larger address that differ from it
\* by a single or by a double excitation.
C24_TwoElectronCountIsSinglesAndDoublesAbove ==
    last.op = "countTwoElectronCouplings" =>
        last.result = Cardinality(ExcitedAbove(last.args[1], 1))
                      + Cardinality(ExcitedAbove(last.args[1], 2))

\* The count of a configuration with both kinds of double excitation above
\* it: to two orbitals above q, and to one above and one below q.
C24_Witness ==
    /\ last.op = "countTwoElectronCouplings"
    /\ last.args[1] = {0, 2}
    /\ M = 5
    /\ Cardinality(ExcitedAbove(last.args[1], 2)) = 3
    /\ last.result = 8

\* C30: for every basis with N <= M, countTotalTwoElectronCouplings() is
\* twice the sum of countTwoElectronCouplings(onv) over the configurations
\* of the basis, and countTotalOneElectronCouplings() twice the sum of
\* countOneElectronCouplings(onv).
C30_TotalCountsAreTwiceTheSumsOverTheConfigurations ==
    (phase = "ready" /\ N <= M) =>
        /\ countTotalOneElectronCouplings.thrown = "none"
        /\ countTotalTwoElectronCouplings.thrown = "none"
        /\ EnumerableBasis =>
               LET configs == Configurations
                   dim == Len(configs)
               IN  /\ countTotalOneElectronCouplings.value =
                          Sz(2 * Sum([i \in 1..dim |-> countOneElectronCouplings(configs[i])],
                                     1, dim))
                   /\ countTotalTwoElectronCouplings.value =
                          Sz(2 * Sum([i \in 1..dim |-> countTwoElectronCouplings(configs[i])],
                                     1, dim))

\* C23: with fewer than two iterates the criterion reports "not converged"
\* without an error, so no run is Converged before two iterates exist.
C23_NoConvergenceBeforeTwoIterates ==
    /\ algorithm.thrown = "none"
    /\ algorithm.state = "Converged" =>
           /\ Len(environment.density_matrices) >= 2
           /\ algorithm.iteration >= 2

\* A run has converged at the first evaluation with two iterates.
C23_Witness ==
    /\ algorithm.state = "Converged"
    /\ algorithm.iteration = 2
    /\ Len(environment.density_matrices) = 2

\* C25: the error-vector accessors of the bindings act on the error-vector
\* history only: error_vectors reads it, and replace_current_error_vectors
\* replaces its last entry and leaves every other history unchanged.
C25_ErrorVectorAccessorsActOnErrorVectors ==
    [][/\ def_readonly.error_vectors = "error_vectors"
       /\ (/\ environment'.called = "replace_current_error_vectors"
           /\ environment.called # "replace_current_error_vectors"
           /\ ~ environment'.undefined) =>
              /\ Len(environment'.error_vectors) = Len(environment.error_vectors)
              /\ environment'.error_vectors # <<>>
              /\ \A h \in Histories \ {"error_vectors"} :
                     environment'[h] = environment[h]
      ]_vars

\* C27: with minimum_subspace_dimension > maximum_subspace_dimension + 1 no
\* call of the DIIS update extrapolates; otherwise every call from the
\* minimum_subspace_dimension-th on does.
C27_ExtrapolationNeverOrFromTheMinimumOn ==
    diis.updates > 0 =>
        IF diis.minimum_subspace_dimension > diis.maximum_subspace_dimension + 1
        THEN /\ ~ diis.solved
             /\ diis.returned = [extrapolated |-> FALSE, f_AO |-> diis.updates]
        ELSE diis.updates >= diis.minimum_subspace_dimension =>
                 /\ diis.solved
                 /\ diis.returned.extrapolated

\* A call beyond the minimum that cannot extrapolate: the subspace never
\* holds as many pairs as the minimum.
C27_Witness ==
    /\ diis.minimum_subspace_dimension > diis.maximum_subspace_dimension + 1
    /\ diis.updates >= diis.minimum_subspace_dimension
    /\ ~ diis.solved

\* C26: numberOfPoints() is the number of callbacks of forEach, so that
\* evaluate() produces a field of exactly numberOfPoints() values.
C26_NumberOfPointsIsTheNumberOfCallbacks ==
    grid.pc = "done" =>
        /\ Len(grid.values) = numberOfPoints(grid)
        /\ grid.reserved = Len(grid.values)

====
